---- MODULE Spec2Model ----
(***************************************************************************)
(* Model of the itinerary page controller, src/public/js/itinerary.js:     *)
(* the in-memory trip list, its copy in localStorage, the input form, the  *)
(* rendered table and the export download.                                 *)
(*                                                                         *)
(* Conventions.                                                            *)
(*  - A JavaScript string is a sequence of symbols; a symbol is one        *)
(*    character (" ", "7", the double quote, the backslash) or an atomic   *)
(*    run of ordinary characters ("train", "2024-06-01").                  *)
(*  - A JavaScript value is a tagged record (JNull, JUndef, JStr, JObj,    *)
(*    JArr).  An object keeps its properties in insertion order.           *)
(*  - JavaScript indices are 0-based, TLA+ sequences 1-based: the element  *)
(*    at JavaScript index i is trips[i + 1].                               *)
(***************************************************************************)
EXTENDS Integers, Sequences, FiniteSets, TLC

VARIABLES
    pc,         \* "boot" before DOMContentLoaded, "ready" once the handlers
                \* are wired, "dead" when the boot callback threw before wiring
    trips,      \* state.trips, the items of the array
    ls,         \* the localStorage item under LS_KEY ("itinerary.trips.v1")
    inputs,     \* .value of the eight form fields
    rows,       \* children of rowsBody, as render left them
    focused,    \* the form field holding the focus, "" for none
    objectURLs, \* live object URLs (created, not yet revoked)
    bodyAnchors,\* temporary <a> elements attached to document.body
    lastWrite,  \* outcome of the most recent localStorage.setItem
    out         \* what the most recent callback did: alert, warning, download

vars == <<pc, trips, ls, inputs, rows, focused, objectURLs, bodyAnchors,
          lastWrite, out>>

(***************************************************************************)
(* Bounds of the model.                                                    *)
(***************************************************************************)
MaxTrips == 2

(***************************************************************************)
(* JavaScript values.                                                      *)
(***************************************************************************)
JNull == [type |-> "null"]
JUndef == [type |-> "undefined"]
JStr(s) == [type |-> "string", chars |-> s]
JObj(props) == [type |-> "object", props |-> props]
JArr(items) == [type |-> "array", items |-> items]
Prop(k, v) == [key |-> <<k>>, value |-> v]

\* o.k : the value of property k, undefined when o has none (a primitive
\* string has no such own property either).  Reading a property of null or
\* undefined throws; callers test IsNullish first.
Get(o, k) ==
    IF o.type = "object"
    THEN LET hits == {i \in 1..Len(o.props) : o.props[i].key = <<k>>}
         IN  IF hits = {} THEN JUndef
             ELSE o.props[CHOOSE i \in hits : \A j \in hits : j <= i].value
    ELSE JUndef

IsNullish(v) == v.type \in {"null", "undefined"}

\* ToBoolean
Truthy(v) ==
    CASE v.type \in {"null", "undefined"} -> FALSE
      [] v.type = "string" -> v.chars # <<>>
      [] OTHER -> TRUE

(***************************************************************************)
(* Strings.                                                                *)
(***************************************************************************)
WhiteSpace == {" ", "\n", "\t"}

RECURSIVE TrimStart(_)
TrimStart(s) ==
    IF s # <<>> /\ Head(s) \in WhiteSpace THEN TrimStart(Tail(s)) ELSE s

RECURSIVE TrimEnd(_)
TrimEnd(s) ==
    IF s # <<>> /\ s[Len(s)] \in WhiteSpace
    THEN TrimEnd(SubSeq(s, 1, Len(s) - 1))
    ELSE s

\* String.prototype.trim
Trim(s) == TrimEnd(TrimStart(s))

\* String(i) for an integer i
String(i) == <<ToString(i)>>

(***************************************************************************)
(* JSON.stringify.  gap = 0 is JSON.stringify(v); gap = 2 is               *)
(* JSON.stringify(v, null, 2).  The values of the model hold no undefined  *)
(* member, no number and no cycle, so serialization itself never throws.   *)
(***************************************************************************)
Spaces(n) == [i \in 1..n |-> " "]

\* Faulty variant: the backslash is written unescaped
EscapeSym_RawBackslash(c) ==
    CASE c = "\"" -> <<"\\", "\"">>
      [] c = "\n" -> <<"\\", "n">>
      [] c = "\t" -> <<"\\", "t">>
      [] OTHER -> <<c>>

\* QuoteJSONString's escape of one symbol
EscapeSym(c) ==
    CASE c = "\"" -> <<"\\", "\"">>
      [] c = "\\" -> <<"\\", "\\">>
      [] c = "\n" -> <<"\\", "n">>
      [] c = "\t" -> <<"\\", "t">>
      [] OTHER -> <<c>>

RECURSIVE Escape(_)
Escape(s) == IF s = <<>> THEN <<>> ELSE EscapeSym(Head(s)) \o Escape(Tail(s))

Quote(s) == <<"\"">> \o Escape(s) \o <<"\"">>

\* Line break and indentation before a member at nesting depth level
Indent(gap, level) == IF gap = 0 THEN <<>> ELSE <<"\n">> \o Spaces(gap * level)

RECURSIVE Serialize(_, _, _), SerializeItems(_, _, _, _), SerializeProps(_, _, _, _)
Serialize(v, gap, level) ==
    CASE v.type = "string" -> Quote(v.chars)
      [] v.type = "array" ->
            IF v.items = <<>> THEN <<"[", "]">>
            ELSE <<"[">> \o SerializeItems(v.items, 1, gap, level + 1)
                         \o Indent(gap, level) \o <<"]">>
      [] v.type = "object" ->
            IF v.props = <<>> THEN <<"{", "}">>
            ELSE <<"{">> \o SerializeProps(v.props, 1, gap, level + 1)
                         \o Indent(gap, level) \o <<"}">>
      [] OTHER -> <<"null">>

SerializeItems(items, i, gap, level) ==
    IF i > Len(items) THEN <<>>
    ELSE Indent(gap, level) \o Serialize(items[i], gap, level)
         \o (IF i < Len(items) THEN <<",">> ELSE <<>>)
         \o SerializeItems(items, i + 1, gap, level)

SerializeProps(props, i, gap, level) ==
    IF i > Len(props) THEN <<>>
    ELSE Indent(gap, level) \o Quote(props[i].key)
         \o (IF gap = 0 THEN <<":">> ELSE <<":", " ">>)
         \o Serialize(props[i].value, gap, level)
         \o (IF i < Len(props) THEN <<",">> ELSE <<>>)
         \o SerializeProps(props, i + 1, gap, level)

JSONStringify(v) == Serialize(v, 0, 0)
JSONStringifyPretty(v, gap) == Serialize(v, gap, 0)

(***************************************************************************)
(* JSON.parse: a recursive-descent parse of the grammar Serialize writes   *)
(* (null, strings, arrays, objects; white space between tokens).  A result *)
(* with ok = FALSE is the SyntaxError JSON.parse throws.                   *)
(***************************************************************************)
ParseFail == [ok |-> FALSE, value |-> JUndef, next |-> 0]
ParseOK(v, n) == [ok |-> TRUE, value |-> v, next |-> n]

RECURSIVE SkipWs(_, _)
SkipWs(s, i) ==
    IF i <= Len(s) /\ s[i] \in WhiteSpace THEN SkipWs(s, i + 1) ELSE i

At(s, i) == IF i >= 1 /\ i <= Len(s) THEN s[i] ELSE "<eof>"

\* an object member: a repeated key keeps its first position and takes the
\* last value
SetProp(props, key, v) ==
    IF \E i \in 1..Len(props) : props[i].key = key
    THEN [i \in 1..Len(props) |->
            IF props[i].key = key THEN [key |-> key, value |-> v] ELSE props[i]]
    ELSE Append(props, [key |-> key, value |-> v])

RECURSIVE ParseString(_, _, _)
ParseString(s, i, acc) ==
    LET c == At(s, i) IN
    CASE c = "<eof>" -> ParseFail
      [] c = "\"" -> ParseOK(JStr(acc), i + 1)
      [] c = "\\" ->
            LET e == At(s, i + 1) IN
            CASE e \in {"\"", "\\"} -> ParseString(s, i + 2, Append(acc, e))
              [] e = "n" -> ParseString(s, i + 2, Append(acc, "\n"))
              [] e = "t" -> ParseString(s, i + 2, Append(acc, "\t"))
              [] OTHER -> ParseFail
      [] c \in {"\n", "\t"} -> ParseFail
      [] OTHER -> ParseString(s, i + 1, Append(acc, c))

RECURSIVE ParseValue(_, _), ParseElements(_, _, _), ParseMembers(_, _, _)
ParseValue(s, i0) ==
    LET i == SkipWs(s, i0)
        c == At(s, i)
    IN  CASE c = "null" -> ParseOK(JNull, i + 1)
          [] c = "\"" -> ParseString(s, i + 1, <<>>)
          [] c = "[" ->
                LET j == SkipWs(s, i + 1) IN
                IF At(s, j) = "]" THEN ParseOK(JArr(<<>>), j + 1)
                ELSE ParseElements(s, j, <<>>)
          [] c = "{" ->
                LET j == SkipWs(s, i + 1) IN
                IF At(s, j) = "}" THEN ParseOK(JObj(<<>>), j + 1)
                ELSE ParseMembers(s, j, <<>>)
          [] OTHER -> ParseFail

ParseElements(s, i, acc) ==
    LET r == ParseValue(s, i) IN
    IF ~r.ok THEN ParseFail
    ELSE LET j == SkipWs(s, r.next)
             c == At(s, j)
         IN  CASE c = "," -> ParseElements(s, j + 1, Append(acc, r.value))
               [] c = "]" -> ParseOK(JArr(Append(acc, r.value)), j + 1)
               [] OTHER -> ParseFail

ParseMembers(s, i, acc) ==
    LET k == SkipWs(s, i) IN
    IF At(s, k) # "\"" THEN ParseFail
    ELSE LET key == ParseString(s, k + 1, <<>>) IN
         IF ~key.ok THEN ParseFail
         ELSE LET c == SkipWs(s, key.next) IN
              IF At(s, c) # ":" THEN ParseFail
              ELSE LET r == ParseValue(s, c + 1) IN
                   IF ~r.ok THEN ParseFail
                   ELSE LET j == SkipWs(s, r.next)
                            d == At(s, j)
                            members == SetProp(acc, key.value.chars, r.value)
                        IN  CASE d = "," -> ParseMembers(s, j + 1, members)
                              [] d = "}" -> ParseOK(JObj(members), j + 1)
                              [] OTHER -> ParseFail

JSONParse(text) ==
    LET r == ParseValue(text, 1) IN
    IF r.ok /\ SkipWs(text, r.next) = Len(text) + 1
    THEN [ok |-> TRUE, value |-> r.value]
    ELSE [ok |-> FALSE, value |-> JUndef]

\* Array.isArray
IsArray(v) == v.type = "array"

(***************************************************************************)
(* Time.  An instant is a number of minutes since 2024-06-01T00:00Z.  A    *)
(* Date object is [type |-> "date", valid, t]; valid = FALSE is the        *)
(* Invalid Date, whose getTime() is NaN.                                   *)
(***************************************************************************)
JDate(t) == [type |-> "date", valid |-> TRUE, t |-> t]
InvalidDate == [type |-> "date", valid |-> FALSE, t |-> 0]

\* the calendar days and times of day the date parser of the model knows
DayStart == [d \in {"2024-06-01", "2024-06-02"} |->
                IF d = "2024-06-01" THEN 0 ELSE 1440]
MinuteOfDay == [t \in {"08:00", "10:30"} |-> IF t = "08:00" THEN 480 ELSE 630]

\* the instant new Date() returns while the page is open (one value: no
\* property of the model compares two readings of the clock)
Clock == {2000}

\* the instants a date text of the model can denote
Instants == {DayStart[d] + MinuteOfDay[t] + 240 :
                d \in DOMAIN DayStart, t \in DOMAIN MinuteOfDay} \cup Clock

\* Date.prototype.toISOString of a valid date
ToISOString(d) == <<ToString(d.t), "Z">>

\* new Date(text).  "<date>T<time>" without zone is local time (the model's
\* environment is 240 minutes behind UTC); "<n>Z" is what toISOString wrote.
DateParse(s) ==
    CASE Len(s) = 3 /\ s[2] = "T" /\ s[1] \in DOMAIN DayStart
                    /\ s[3] \in DOMAIN MinuteOfDay
            -> JDate(DayStart[s[1]] + MinuteOfDay[s[3]] + 240)
      [] Len(s) = 2 /\ s[2] = "Z" /\ (\E n \in Instants : ToString(n) = s[1])
            -> JDate(CHOOSE n \in Instants : ToString(n) = s[1])
      [] OTHER -> InvalidDate

\* Faulty variant: the Invalid Date is returned as if it were a date
buildLocalDate_NoNaNTest(dateStr, timeStr) ==
    IF dateStr = <<>> \/ timeStr = <<>> THEN JNull
    ELSE DateParse(dateStr \o <<"T">> \o timeStr)

\* null when either text is empty or the pair is no date
buildLocalDate(dateStr, timeStr) ==
    IF dateStr = <<>> \/ timeStr = <<>> THEN JNull
    ELSE LET d == DateParse(dateStr \o <<"T">> \o timeStr) IN
         IF ~d.valid THEN JNull ELSE d

\* [threw, text]: Intl.DateTimeFormat.format throws a RangeError on the
\* Invalid Date; the text is the wall clock of America/Los_Angeles
\* (420 minutes behind UTC in June)
formatLA(dt) ==
    CASE dt.type = "null" -> [threw |-> FALSE, text |-> <<>>]
      [] ~dt.valid -> [threw |-> TRUE, text |-> <<>>]
      [] OTHER -> [threw |-> FALSE, text |-> <<"LA", ToString(dt.t - 420)>>]

stampFilename(now) == <<"itin-", ToString(now - 420), ".json">>

(***************************************************************************)
(* Persistence.  A storage item is [present, text]; getItem of an absent   *)
(* item is null.                                                           *)
(***************************************************************************)
NoItem == [present |-> FALSE, text |-> <<>>]
Item(text) == [present |-> TRUE, text |-> text]

\* Faulty variant: only the Trip touched last is written (a diff)
saveState_Diff(list, item, writeOK) ==
    IF writeOK
    THEN [item |-> Item(JSONStringify(JArr(
                      IF list = <<>> THEN <<>> ELSE <<list[Len(list)]>>))),
          write |-> "ok", warned |-> FALSE]
    ELSE [item |-> item, write |-> "failed", warned |-> TRUE]

\* Faulty variant: a failed write drops the item
saveState_DropOnFailure(list, item, writeOK) ==
    IF writeOK
    THEN [item |-> Item(JSONStringify(JArr(list))), write |-> "ok",
          warned |-> FALSE]
    ELSE [item |-> NoItem, write |-> "failed", warned |-> TRUE]

\* saveState: [item, write, warned].  writeOK = FALSE is setItem throwing
\* (quota exceeded, storage disabled).
saveState(list, item, writeOK) ==
    IF writeOK
    THEN [item |-> Item(JSONStringify(JArr(list))), write |-> "ok",
          warned |-> FALSE]
    ELSE [item |-> item, write |-> "failed", warned |-> TRUE]

\* Faulty variant: no Array.isArray test, any parsed value is adopted
loadState_NoArrayTest(list, item, readOK) ==
    IF ~readOK THEN [trips |-> list, warned |-> TRUE]
    ELSE IF ~item.present \/ item.text = <<>>
    THEN [trips |-> list, warned |-> FALSE]
    ELSE LET parsed == JSONParse(item.text) IN
         IF ~parsed.ok THEN [trips |-> list, warned |-> TRUE]
         ELSE IF IsArray(parsed.value)
         THEN [trips |-> parsed.value.items, warned |-> FALSE]
         ELSE [trips |-> <<parsed.value>>, warned |-> FALSE]

\* loadState: [trips, warned].  readOK = FALSE is getItem throwing.
loadState(list, item, readOK) ==
    IF ~readOK THEN [trips |-> list, warned |-> TRUE]
    ELSE IF ~item.present \/ item.text = <<>>
    THEN [trips |-> list, warned |-> FALSE]
    ELSE LET parsed == JSONParse(item.text) IN
         IF ~parsed.ok THEN [trips |-> list, warned |-> TRUE]
         ELSE IF IsArray(parsed.value)
         THEN [trips |-> parsed.value.items, warned |-> FALSE]
         ELSE [trips |-> list, warned |-> FALSE]

(***************************************************************************)
(* Render.                                                                 *)
(***************************************************************************)
\* String(v), as textContent stores it
RECURSIVE ToText(_), JoinText(_, _)
ToText(v) ==
    CASE v.type = "string" -> v.chars
      [] v.type = "object" -> <<"[object Object]">>
      [] v.type = "array" -> JoinText(v.items, 1)
      [] OTHER -> <<>>
JoinText(items, i) ==
    IF i > Len(items) THEN <<>>
    ELSE ToText(items[i]) \o (IF i < Len(items) THEN <<",">> ELSE <<>>)
         \o JoinText(items, i + 1)

\* td.textContent = text ?? ""
cell(v) == IF IsNullish(v) THEN <<>> ELSE ToText(v)

\* new Date(v) of a parsed value
NewDate(v) == DateParse(ToText(v))

\* t?.depart?.isoUtc ? new Date(t.depart.isoUtc) : null
RowDate(t, k) ==
    LET leg == IF IsNullish(t) THEN JUndef ELSE Get(t, k)
        iso == IF IsNullish(leg) THEN JUndef ELSE Get(leg, "isoUtc")
    IN  IF Truthy(iso) THEN NewDate(iso) ELSE JNull

\* one pass of the forEach body for the element at JavaScript index i:
\* [threw, row].  t.train of a null element throws a TypeError.
RenderRow(t, i) ==
    LET departText == formatLA(RowDate(t, "depart"))
        arriveText == formatLA(RowDate(t, "arrive"))
    IN  IF IsNullish(t) \/ departText.threw \/ arriveText.threw
        THEN [threw |-> TRUE, row |-> [index |-> <<>>, cells |-> <<>>]]
        ELSE [threw |-> FALSE,
              row |-> [index |-> String(i),
                       cells |-> << String(i + 1),
                                    cell(Get(t, "train")),
                                    cell(Get(t, "origin")),
                                    cell(Get(t, "destination")),
                                    departText.text,
                                    arriveText.text,
                                    IF Truthy(Get(t, "notes"))
                                    THEN ToText(Get(t, "notes")) ELSE <<>> >>]]

\* render: rowsBody is emptied, then rows are appended until one throws
RECURSIVE RenderFrom(_, _, _)
RenderFrom(list, k, acc) ==
    IF k > Len(list) THEN [threw |-> FALSE, rows |-> acc]
    ELSE LET r == RenderRow(list[k], k - 1) IN
         IF r.threw THEN [threw |-> TRUE, rows |-> acc]
         ELSE RenderFrom(list, k + 1, Append(acc, r.row))

render(list) == RenderFrom(list, 1, <<>>)

(***************************************************************************)
(* Data collection.                                                        *)
(***************************************************************************)
\* Faulty variant: only the train field is tested
requiredOK_TrainOnly(in) == Trim(in.train) # <<>>

\* Faulty variant: the fields are tested without trimming
requiredOK_NoTrim(in) ==
    in.train # <<>> /\ in.origin # <<>> /\ in.dest # <<>>

requiredOK(in) ==
    Trim(in.train) # <<>> /\ Trim(in.origin) # <<>> /\ Trim(in.dest) # <<>>

Leg(date, time) ==
    LET dt == buildLocalDate(date, time) IN
    JObj(<< Prop("date", JStr(date)),
            Prop("time", JStr(time)),
            Prop("isoUtc", JStr(IF dt.type = "null" THEN <<>>
                                ELSE ToISOString(dt))) >>)

collectTrip(in, now) ==
    JObj(<< Prop("train", JStr(Trim(in.train))),
            Prop("origin", JStr(Trim(in.origin))),
            Prop("destination", JStr(Trim(in.dest))),
            Prop("depart", Leg(in.departDate, in.departTime)),
            Prop("arrive", Leg(in.arriveDate, in.arriveTime)),
            Prop("notes", JStr(Trim(in.notes))),
            Prop("createdAt", JStr(ToISOString(JDate(now)))) >>)

clearInputs ==
    [train |-> <<>>, origin |-> <<>>, dest |-> <<>>,
     departDate |-> <<>>, departTime |-> <<>>,
     arriveDate |-> <<>>, arriveTime |-> <<>>, notes |-> <<>>]

(***************************************************************************)
(* What the user can type into the form, and what a reload can find in     *)
(* storage.                                                                *)
(***************************************************************************)
FillA ==
    [train |-> <<" ", "7">>, origin |-> <<"S">>, dest |-> <<"D", " ">>,
     departDate |-> <<"2024-06-01">>, departTime |-> <<"08:00">>,
     arriveDate |-> <<"2024-06-01">>, arriveTime |-> <<"10:30">>,
     notes |-> <<>>]
FillB ==
    [train |-> <<"8">>, origin |-> <<"S", " ", "J">>, dest |-> <<"D">>,
     departDate |-> <<"2024-06-02">>, departTime |-> <<>>,
     arriveDate |-> <<"soon">>, arriveTime |-> <<"10:30">>,
     notes |-> <<" ", "\"", "\n", "\\", "n", " ">>]
FillNoOrigin == [FillA EXCEPT !.origin = <<>>]
FillBlankTrain == [FillB EXCEPT !.train = <<" ", "\t">>]
FillBlankDest == [FillA EXCEPT !.dest = <<" ">>]

FormFills == {FillA, FillB, FillNoOrigin, FillBlankTrain, FillBlankDest}

\* what the first load of the page can find under the key: nothing, the
\* empty text, text that is no JSON, JSON that is no array, a list an
\* earlier visit saved, and a list holding a null entry
InitialItems ==
    { NoItem,
      Item(<<>>),
      Item(<<"[", "{", "\"", "train">>),
      Item(<<"{", "}">>),
      Item(JSONStringify(JArr(<<collectTrip(FillB, 2000),
                                collectTrip(FillA, 2000)>>))),
      Item(JSONStringify(JArr(<<collectTrip(FillA, 2000), JNull>>))) }

(***************************************************************************)
(* The callbacks.  out records what the most recent one did.               *)
(***************************************************************************)
NoTarget == [action |-> <<>>, tr |-> FALSE, index |-> JUndef]

Quiet(op) ==
    [op |-> op, target |-> NoTarget, notice |-> <<>>, warned |-> FALSE,
     threw |-> FALSE, read |-> "none", write |-> "none", file |-> <<>>]

Init ==
    /\ pc = "boot"
    /\ trips = <<>>
    /\ ls \in InitialItems
    /\ inputs = clearInputs
    /\ rows = <<>>
    /\ focused = ""
    /\ objectURLs = {}
    /\ bodyAnchors = 0
    /\ lastWrite = "none"
    /\ out = Quiet("none")

\* DOMContentLoaded: loadState, render, then the listeners are added
Boot ==
    /\ pc = "boot"
    /\ \E readOK \in BOOLEAN :
         LET loaded == loadState(trips, ls, readOK)
             drawn == render(loaded.trips)
         IN  /\ trips' = loaded.trips
             /\ rows' = drawn.rows
             /\ pc' = IF drawn.threw THEN "dead" ELSE "ready"
             /\ out' = [Quiet("boot") EXCEPT
                          !.read = IF readOK THEN "ok" ELSE "failed",
                          !.warned = loaded.warned,
                          !.threw = drawn.threw]
    /\ UNCHANGED <<ls, inputs, focused, objectURLs, bodyAnchors, lastWrite>>

\* the user edits the form
TypeInputs ==
    /\ pc = "ready"
    /\ \E fill \in FormFills : inputs' = fill
    /\ out' = Quiet("input")
    /\ UNCHANGED <<pc, trips, ls, rows, focused, objectURLs, bodyAnchors,
                   lastWrite>>

\* Faulty variant: the new Trip is put first (unshift instead of push)
onAdd_Unshift(now, writeOK) ==
    IF ~requiredOK(inputs)
    THEN [trips |-> trips, item |-> ls, write |-> lastWrite,
          inputs |-> inputs, focused |-> focused, rows |-> rows,
          out |-> [Quiet("add") EXCEPT !.notice =
                     <<"Train, Origin, and Destination are required.">>]]
    ELSE LET pushed == <<collectTrip(inputs, now)>> \o trips
             saved == saveState(pushed, ls, writeOK)
             drawn == render(pushed)
         IN  [trips |-> pushed, item |-> saved.item, write |-> saved.write,
              inputs |-> clearInputs, focused |-> "train",
              rows |-> drawn.rows,
              out |-> [Quiet("add") EXCEPT !.warned = saved.warned,
                                          !.write = saved.write,
                                          !.threw = drawn.threw]]

\* Faulty variant: the form is left as typed after a successful add
onAdd_NoClear(now, writeOK) ==
    IF ~requiredOK(inputs)
    THEN [trips |-> trips, item |-> ls, write |-> lastWrite,
          inputs |-> inputs, focused |-> focused, rows |-> rows,
          out |-> [Quiet("add") EXCEPT !.notice =
                     <<"Train, Origin, and Destination are required.">>]]
    ELSE LET pushed == Append(trips, collectTrip(inputs, now))
             saved == saveState(pushed, ls, writeOK)
             drawn == render(pushed)
         IN  [trips |-> pushed, item |-> saved.item, write |-> saved.write,
              inputs |-> inputs, focused |-> "train",
              rows |-> drawn.rows,
              out |-> [Quiet("add") EXCEPT !.warned = saved.warned,
                                          !.write = saved.write,
                                          !.threw = drawn.threw]]

\* Faulty variant: the list is replaced by the new Trip alone
onAdd_Replace(now, writeOK) ==
    IF ~requiredOK(inputs)
    THEN [trips |-> trips, item |-> ls, write |-> lastWrite,
          inputs |-> inputs, focused |-> focused, rows |-> rows,
          out |-> [Quiet("add") EXCEPT !.notice =
                     <<"Train, Origin, and Destination are required.">>]]
    ELSE LET pushed == <<collectTrip(inputs, now)>>
             saved == saveState(pushed, ls, writeOK)
             drawn == render(pushed)
         IN  [trips |-> pushed, item |-> saved.item, write |-> saved.write,
              inputs |-> clearInputs, focused |-> "train",
              rows |-> drawn.rows,
              out |-> [Quiet("add") EXCEPT !.warned = saved.warned,
                                          !.write = saved.write,
                                          !.threw = drawn.threw]]

\* onAdd: [trips, item, write, inputs, focused, rows, out]
onAdd(now, writeOK) ==
    IF ~requiredOK(inputs)
    THEN [trips |-> trips, item |-> ls, write |-> lastWrite,
          inputs |-> inputs, focused |-> focused, rows |-> rows,
          out |-> [Quiet("add") EXCEPT !.notice =
                     <<"Train, Origin, and Destination are required.">>]]
    ELSE LET pushed == Append(trips, collectTrip(inputs, now))
             saved == saveState(pushed, ls, writeOK)
             drawn == render(pushed)
         IN  [trips |-> pushed, item |-> saved.item, write |-> saved.write,
              inputs |-> clearInputs, focused |-> "train",
              rows |-> drawn.rows,
              out |-> [Quiet("add") EXCEPT !.warned = saved.warned,
                                          !.write = saved.write,
                                          !.threw = drawn.threw]]

ClickAdd ==
    /\ pc = "ready"
    /\ requiredOK(inputs) => Len(trips) < MaxTrips
    /\ \E now \in Clock,
          writeOK \in IF requiredOK(inputs) THEN BOOLEAN ELSE {TRUE} :
         LET r == onAdd(now, writeOK) IN
         /\ trips' = r.trips
         /\ ls' = r.item
         /\ lastWrite' = r.write
         /\ inputs' = r.inputs
         /\ focused' = r.focused
         /\ rows' = r.rows
         /\ out' = r.out
    /\ UNCHANGED <<pc, objectURLs, bodyAnchors>>

\* Number(v) of a data attribute: [integer, n].  An absent attribute is
\* undefined and gives NaN; text is trimmed, the empty text is 0, a decimal
\* numeral is its integer, anything else is NaN or a fraction.
Numerals == -(MaxTrips + 2)..(MaxTrips + 2)
Number(v) ==
    IF v.type # "string" THEN [integer |-> FALSE, n |-> 0]
    ELSE LET t == Trim(v.chars) IN
         CASE t = <<>> -> [integer |-> TRUE, n |-> 0]
           [] Len(t) = 1 /\ (\E n \in Numerals : ToString(n) = t[1])
                -> [integer |-> TRUE,
                    n |-> CHOOSE n \in Numerals : ToString(n) = t[1]]
           [] OTHER -> [integer |-> FALSE, n |-> 0]

Min(a, b) == IF a < b THEN a ELSE b
Max(a, b) == IF a > b THEN a ELSE b

\* Faulty variant: splice(idx) without a count removes up to the end
splice_ToEnd(list, idx) ==
    LET n == Len(list)
        start == IF idx < 0 THEN Max(n + idx, 0) ELSE Min(idx, n)
    IN  SubSeq(list, 1, start)

\* Array.prototype.splice(idx, 1) for an integer idx: a negative start
\* counts from the end, a start past the end removes nothing
splice(list, idx) ==
    LET n == Len(list)
        start == IF idx < 0 THEN Max(n + idx, 0) ELSE Min(idx, n)
        count == Min(1, n - start)
        kept == {k \in 1..n : k - 1 < start \/ k - 1 >= start + count}
    IN  [j \in 1..Cardinality(kept) |->
            list[CHOOSE k \in kept : Cardinality({m \in kept : m < k}) = j - 1]]

\* onDelete: [trips, item, write, rows, out]
onDelete(target, writeOK) ==
    LET idx == Number(target.index)
        ignored == [trips |-> trips, item |-> ls, write |-> lastWrite,
                    rows |-> rows,
                    out |-> [Quiet("delete") EXCEPT !.target = target]]
    IN  IF ~target.tr THEN ignored
        ELSE IF ~idx.integer THEN ignored
        ELSE LET spliced == splice(trips, idx.n)
                 saved == saveState(spliced, ls, writeOK)
                 drawn == render(spliced)
             IN  [trips |-> spliced, item |-> saved.item,
                  write |-> saved.write, rows |-> drawn.rows,
                  out |-> [Quiet("delete") EXCEPT !.target = target,
                                                 !.warned = saved.warned,
                                                 !.write = saved.write,
                                                 !.threw = drawn.threw]]

\* the click listener of rowsBody: only a target marked delete-row reaches
\* onDelete
ReachesSave(target) ==
    /\ target.action = <<"delete-row">>
    /\ target.tr
    /\ Number(target.index).integer

ClickRows(target) ==
    /\ pc = "ready"
    /\ \E writeOK \in IF ReachesSave(target) THEN BOOLEAN ELSE {TRUE} :
         LET r == IF target.action = <<"delete-row">>
                  THEN onDelete(target, writeOK)
                  ELSE [trips |-> trips, item |-> ls, write |-> lastWrite,
                        rows |-> rows,
                        out |-> [Quiet("click") EXCEPT !.target = target]]
         IN  /\ trips' = r.trips
             /\ ls' = r.item
             /\ lastWrite' = r.write
             /\ rows' = r.rows
             /\ out' = r.out
    /\ UNCHANGED <<pc, inputs, focused, objectURLs, bodyAnchors>>

\* the elements render put into rowsBody: the Delete button of each row and
\* its other cells
DeleteButton(row) ==
    [action |-> <<"delete-row">>, tr |-> TRUE, index |-> JStr(row.index)]
RenderedTargets ==
    {DeleteButton(rows[k]) : k \in 1..Len(rows)}
      \cup {[DeleteButton(rows[k]) EXCEPT !.action = <<>>] :
               k \in 1..Min(1, Len(rows))}

\* The user clicks inside the table as render drew it
ClickRendered == \E target \in RenderedTargets : ClickRows(target)

\* delete-row elements render did not write: outside any row, on a row
\* without data-index, or on a row whose data-index was edited
ForeignTargets ==
    {[action |-> <<"delete-row">>, tr |-> FALSE, index |-> JUndef],
     [action |-> <<"delete-row">>, tr |-> TRUE, index |-> JUndef]}
      \cup {[action |-> <<"delete-row">>, tr |-> TRUE, index |-> JStr(i)] :
              i \in {<<"1.5">>, <<>>, String(-1), String(Len(trips))}}

ClickForeign == \E target \in ForeignTargets : ClickRows(target)

\* URL.createObjectURL: a URL no live object URL equals
FreshURL(urls) == CHOOSE u \in 0..Cardinality(urls) : u \notin urls

\* Faulty variant: the object URL is never revoked
onSave_NoRevoke(now, downloadOK) ==
    IF Len(trips) = 0
    THEN [urls |-> objectURLs, anchors |-> bodyAnchors,
          out |-> [Quiet("save") EXCEPT !.notice = <<"No trips to save yet.">>]]
    ELSE LET text == JSONStringifyPretty(
                        JObj(<<Prop("trips", JArr(trips))>>), 2)
             url == FreshURL(objectURLs)
             created == objectURLs \cup {url}
             appended == bodyAnchors + 1
             clicked == [name |-> stampFilename(now), text |-> text,
                         live |-> url \in created, attached |-> appended > 0,
                         saved |-> downloadOK]
             removed == appended - 1
         IN  [urls |-> created, anchors |-> removed,
              out |-> [Quiet("save") EXCEPT !.file = <<clicked>>]]

\* Faulty variant: no test for the empty list
onSave_NoEmptyTest(now, downloadOK) ==
    LET text == JSONStringifyPretty(JObj(<<Prop("trips", JArr(trips))>>), 2)
        url == FreshURL(objectURLs)
        created == objectURLs \cup {url}
        appended == bodyAnchors + 1
        clicked == [name |-> stampFilename(now), text |-> text,
                    live |-> url \in created, attached |-> appended > 0,
                    saved |-> downloadOK]
        revoked == created \ {url}
        removed == appended - 1
    IN  [urls |-> revoked, anchors |-> removed,
         out |-> [Quiet("save") EXCEPT !.file = <<clicked>>]]

\* Faulty variant: the document lists the trips last to first
onSave_Reversed(now, downloadOK) ==
    IF Len(trips) = 0
    THEN [urls |-> objectURLs, anchors |-> bodyAnchors,
          out |-> [Quiet("save") EXCEPT !.notice = <<"No trips to save yet.">>]]
    ELSE LET text == JSONStringifyPretty(
                        JObj(<<Prop("trips",
                                    JArr([k \in 1..Len(trips) |->
                                            trips[Len(trips) + 1 - k]]))>>), 2)
             url == FreshURL(objectURLs)
             created == objectURLs \cup {url}
             appended == bodyAnchors + 1
             clicked == [name |-> stampFilename(now), text |-> text,
                         live |-> url \in created, attached |-> appended > 0,
                         saved |-> downloadOK]
             revoked == created \ {url}
             removed == appended - 1
         IN  [urls |-> revoked, anchors |-> removed,
              out |-> [Quiet("save") EXCEPT !.file = <<clicked>>]]

\* onSave: [urls, anchors, out].  The object URL and the anchor exist only
\* inside the call.  a.click() returns normally whether the browser goes on
\* to save the file (downloadOK) or the download is blocked or cancelled.
onSave(now, downloadOK) ==
    IF Len(trips) = 0
    THEN [urls |-> objectURLs, anchors |-> bodyAnchors,
          out |-> [Quiet("save") EXCEPT !.notice = <<"No trips to save yet.">>]]
    ELSE LET text == JSONStringifyPretty(
                        JObj(<<Prop("trips", JArr(trips))>>), 2)
             url == FreshURL(objectURLs)
             created == objectURLs \cup {url}
             appended == bodyAnchors + 1
             clicked == [name |-> stampFilename(now), text |-> text,
                         live |-> url \in created, attached |-> appended > 0,
                         saved |-> downloadOK]
             revoked == created \ {url}
             removed == appended - 1
         IN  [urls |-> revoked, anchors |-> removed,
              out |-> [Quiet("save") EXCEPT !.file = <<clicked>>]]

ClickSave ==
    /\ pc = "ready"
    /\ \E now \in Clock,
          downloadOK \in IF Len(trips) = 0 THEN {FALSE} ELSE BOOLEAN :
         LET r == onSave(now, downloadOK) IN
         /\ objectURLs' = r.urls
         /\ bodyAnchors' = r.anchors
         /\ out' = r.out
    /\ UNCHANGED <<pc, trips, ls, inputs, rows, focused, lastWrite>>

\* the page is loaded again: a new script instance over the same storage
Reload ==
    /\ pc \in {"ready", "dead"}
    /\ pc' = "boot"
    /\ trips' = <<>>
    /\ inputs' = clearInputs
    /\ rows' = <<>>
    /\ focused' = ""
    /\ objectURLs' = {}
    /\ bodyAnchors' = 0
    /\ lastWrite' = "none"
    /\ out' = Quiet("none")
    /\ UNCHANGED ls

\* The page with the table as render drew it
Next ==
    \/ Boot
    \/ TypeInputs
    \/ ClickAdd
    \/ ClickRendered
    \/ ClickSave
    \/ Reload

Spec == Init /\ [][Next]_vars

\* The page when rowsBody also holds delete-row elements render did not write
NextTampered ==
    \/ Boot
    \/ TypeInputs
    \/ ClickAdd
    \/ ClickRendered
    \/ ClickForeign
    \/ ClickSave
    \/ Reload

SpecTampered == Init /\ [][NextTampered]_vars

\* The page opened over a list that this version of onAdd did not write: a
\* record with a whitespace-only train, an empty destination and no depart,
\* arrive or notes
StoredBlankTrip ==
    JObj(<< Prop("train", JStr(<<" ">>)),
            Prop("origin", JStr(<<"S">>)),
            Prop("destination", JStr(<<>>)) >>)

StoredItems == { Item(JSONStringify(JArr(<<StoredBlankTrip>>))) }

InitStored ==
    /\ pc = "boot"
    /\ trips = <<>>
    /\ ls \in StoredItems
    /\ inputs = clearInputs
    /\ rows = <<>>
    /\ focused = ""
    /\ objectURLs = {}
    /\ bodyAnchors = 0
    /\ lastWrite = "none"
    /\ out = Quiet("none")

SpecStored == InitStored /\ [][Next]_vars

(***************************************************************************)
(* Properties.                                                             *)
(***************************************************************************)
RequiredNotice == <<"Train, Origin, and Destination are required.">>
EmptyNotice == <<"No trips to save yet.">>

\* what a fresh page finds when it reads the item back
Reloaded(item) == loadState(<<>>, item, TRUE).trips

\* a field that is empty or holds white space only
Blank(s) == \A i \in 1..Len(s) : s[i] \in {" ", "\n", "\t"}
AnyRequiredBlank(in) == Blank(in.train) \/ Blank(in.origin) \/ Blank(in.dest)

\* the trips collectTrip can build from a form
Collected(in) == {collectTrip(in, now) : now \in Clock}

\* C1: whenever the most recent storage write succeeded, the item under the
\* key is the serialization of the whole current list, and a reload (empty
\* list, then loadState) restores the same trips in the same order.  This
\* covers runs with no failed write and the first successful write after
\* failed ones.
C1_StoredIsWholeList ==
    lastWrite = "ok" =>
        /\ ls = Item(JSONStringify(JArr(trips)))
        /\ Reloaded(ls) = trips

C1_Witness ==
    /\ lastWrite = "ok"
    /\ out.op = "delete"
    /\ Len(trips) = 1
    /\ Reloaded(ls) = trips

\* C2: an add whose train, origin and destination are non-blank after
\* trimming appends exactly one Trip, the one collected from the form, at the
\* last position and leaves every earlier Trip in place; it hands the full
\* list to storage (stored in full when the write succeeds), clears the form
\* and redraws the table from the new list.
C2_AddAppends ==
    [][(out'.op = "add" /\ ~AnyRequiredBlank(inputs)) =>
          /\ Len(trips') = Len(trips) + 1
          /\ SubSeq(trips', 1, Len(trips)) = trips
          /\ trips'[Len(trips')] \in Collected(inputs)
          /\ out'.notice = <<>>
          /\ out'.write \in {"ok", "failed"}
          /\ (out'.write = "ok" => ls' = Item(JSONStringify(JArr(trips'))))
          /\ inputs' = clearInputs
          /\ rows' = render(trips').rows
          /\ Len(rows') = Len(trips')]_vars

C2_Witness ==
    /\ out.op = "add"
    /\ out.notice = <<>>
    /\ out.write = "ok"
    /\ Len(trips) = 2
    /\ trips[1] # trips[2]
    /\ inputs = clearInputs
    /\ Len(rows) = 2

\* C3: an add with train, origin or destination empty or whitespace-only
\* shows the blocking notice and changes nothing: list, stored item, rendered
\* rows and form are as before.
C3_BlankAddChangesNothing ==
    [][(out'.op = "add" /\ AnyRequiredBlank(inputs)) =>
          /\ out'.notice = RequiredNotice
          /\ trips' = trips
          /\ ls' = ls
          /\ rows' = rows
          /\ inputs' = inputs
          /\ lastWrite' = lastWrite]_vars

C3_Witness ==
    /\ out.op = "add"
    /\ out.notice = RequiredNotice
    /\ inputs = FillBlankTrain
    /\ Len(trips) = 1

\* C4: a delete whose row index i satisfies 0 <= i < n removes exactly the
\* element at index i: the length becomes n - 1, elements before i keep
\* their index and elements after i move down by one.
DeleteIndex(target) == Number(target.index).n
InRange(target, n) ==
    /\ target.action = <<"delete-row">>
    /\ target.tr
    /\ Number(target.index).integer
    /\ DeleteIndex(target) >= 0
    /\ DeleteIndex(target) < n

C4_DeleteRemovesOne ==
    [][(out'.op = "delete" /\ InRange(out'.target, Len(trips))) =>
          LET i == DeleteIndex(out'.target) IN
          /\ Len(trips') = Len(trips) - 1
          /\ \A k \in 0..(Len(trips') - 1) :
                trips'[k + 1] = IF k < i THEN trips[k + 1] ELSE trips[k + 2]]_vars

C4_Witness ==
    /\ out.op = "delete"
    /\ out.target.index = JStr(String(0))
    /\ Len(trips) = 1
    /\ trips[1] = collectTrip(FillA, 2000)
    /\ ls = Item(JSONStringify(JArr(trips)))

\* C5: a delete whose target index is not an integer, is negative or is >=
\* the list length changes neither the in-memory list nor the stored item.
C5_InvalidIndexIsNoOp ==
    [][(out'.op = "delete" /\ ~InRange(out'.target, Len(trips))) =>
          (trips' = trips /\ ls' = ls)]_vars

\* C6: saveState followed by loadState into a fresh state gives back the
\* list, field for field and in the same order, for every list the page can
\* hold (the empty list included).
C6_SaveLoadRoundTrip ==
    Reloaded(saveState(trips, NoItem, TRUE).item) = trips

C6_Witness ==
    /\ out.op = "boot"
    /\ out.read = "ok"
    /\ Len(trips) = 2
    /\ ls = Item(JSONStringify(JArr(trips)))
    /\ \E k \in 1..2 : Get(trips[k], "notes") = JStr(<<"\"", "\n", "\\", "n">>)

\* C7: a load that finds no item, text that does not parse, a parsed value
\* that is no array, or a failing storage read leaves the list empty and
\* does not throw: boot goes on to render and to wire the handlers.
Corrupt(item) ==
    \/ ~item.present
    \/ ~JSONParse(item.text).ok
    \/ ~IsArray(JSONParse(item.text).value)

C7_BadLoadKeepsEmpty ==
    (out.op = "boot" /\ (Corrupt(ls) \/ out.read = "failed")) =>
        (trips = <<>> /\ pc = "ready" /\ ~out.threw)

C7_Witness ==
    /\ out.op = "boot"
    /\ out.read = "ok"
    /\ ls = Item(<<"{", "}">>)
    /\ trips = <<>>
    /\ pc = "ready"

\* C8: when the storage write of an add or a delete fails, the handler still
\* runs to its end without throwing (form cleared on add, table redrawn),
\* the list holds the mutated value and the stored item is what it was.
C8_FailedWriteKeepsMutation ==
    [][(out'.write = "failed") =>
          /\ ls' = ls
          /\ ~out'.threw
          /\ rows' = render(trips').rows
          /\ Len(rows') = Len(trips')
          /\ out'.op = "add" =>
                /\ Len(trips') = Len(trips) + 1
                /\ SubSeq(trips', 1, Len(trips)) = trips
                /\ trips'[Len(trips')] \in Collected(inputs)
                /\ inputs' = clearInputs
                /\ focused' = "train"
          /\ out'.op = "delete" =>
                /\ Len(trips') = Len(trips) - 1
                /\ \A k \in 0..(Len(trips') - 1) :
                      trips'[k + 1] = IF k < DeleteIndex(out'.target)
                                      THEN trips[k + 1] ELSE trips[k + 2]
          /\ out'.op \in {"add", "delete"}]_vars

C8_Witness ==
    /\ out.op = "add"
    /\ out.write = "failed"
    /\ Len(trips) = 1
    /\ Len(rows) = 1
    /\ inputs = clearInputs
    /\ ls = NoItem

\* C9: no object URL and no temporary anchor outlives an export: after every
\* callback both are released, and an export of a non-empty list used them
\* for exactly one click, whether or not the download then succeeded.
C9_ExportReleases ==
    /\ objectURLs = {}
    /\ bodyAnchors = 0
    /\ (out.op = "save" /\ trips # <<>>) =>
          /\ Len(out.file) = 1
          /\ out.file[1].live
          /\ out.file[1].attached

C9_Witness ==
    /\ out.op = "save"
    /\ Len(out.file) = 1
    /\ ~out.file[1].saved
    /\ objectURLs = {}
    /\ bodyAnchors = 0

\* C10: an export of the empty list shows the blocking notice and produces
\* nothing: no file, no object URL, no temporary anchor.
C10_EmptyExportAborts ==
    (out.op = "save" /\ trips = <<>>) =>
        /\ out.notice = EmptyNotice
        /\ out.file = <<>>
        /\ objectURLs = {}
        /\ bodyAnchors = 0

C10_Witness ==
    /\ out.op = "save"
    /\ trips = <<>>
    /\ out.notice = EmptyNotice
    /\ out.file = <<>>

\* the text of a required field of a list element, empty when the element
\* is null or has no such string
RequiredText(t, k) ==
    IF IsNullish(t) THEN <<>>
    ELSE IF Get(t, k).type = "string" THEN Get(t, k).chars ELSE <<>>

HasBlankRequired(t) ==
    \/ Blank(RequiredText(t, "train"))
    \/ Blank(RequiredText(t, "origin"))
    \/ Blank(RequiredText(t, "destination"))

\* C11 (as claimed): in every reachable state every Trip of the list has a
\* train, origin and destination that are not empty and not whitespace-only.
C11_RequiredNeverBlank ==
    \A k \in 1..Len(trips) : ~HasBlankRequired(trips[k])

\* C11 (amended): add only ever appends a Trip whose train, origin and
\* destination are non-blank, and delete and export bring no Trip in; a Trip
\* with a blank required field is in the list only because load took it
\* from the stored array, which it adopts without looking at the elements.
C11_BlankOnlyFromStorage ==
    [][\A k \in 1..Len(trips') :
          HasBlankRequired(trips'[k]) =>
             \/ \E j \in 1..Len(trips) : trips[j] = trips'[k]
             \/ /\ out'.op = "boot"
                /\ JSONParse(ls.text).ok
                /\ IsArray(JSONParse(ls.text).value)
                /\ trips' = JSONParse(ls.text).value.items]_vars

C11_Witness ==
    /\ out.op = "add"
    /\ out.notice = <<>>
    /\ Len(trips) = 2
    /\ HasBlankRequired(trips[1])
    /\ ~HasBlankRequired(trips[2])

\* C12: a stored array with malformed elements (a null entry, an object
\* without depart or arrive) replaces the list at load, the first render
\* completes with one row per element, and the handlers are then wired.
StoredArray(item) ==
    /\ item.present
    /\ JSONParse(item.text).ok
    /\ IsArray(JSONParse(item.text).value)

C12_MalformedElementsRender ==
    (out.op = "boot" /\ out.read = "ok" /\ StoredArray(ls)) =>
        /\ trips = JSONParse(ls.text).value.items
        /\ ~out.threw
        /\ Len(rows) = Len(trips)
        /\ pc = "ready"

\* C13: after boot and after every add, delete or export the table is the
\* projection of the list: one row per Trip in list order, the row at
\* position k showing display index k+1 and carrying delete index k.
C13_RowsAreProjection ==
    pc # "boot" =>
        /\ Len(rows) = Len(trips)
        /\ \A k \in 1..Len(rows) :
              /\ rows[k].index = String(k - 1)
              /\ rows[k].cells[1] = String(k)

\* The same projection, for pages whose boot finished.
C13_ReadyRowsAreProjection ==
    pc = "ready" =>
        /\ Len(rows) = Len(trips)
        /\ \A k \in 1..Len(rows) :
              /\ rows[k].index = String(k - 1)
              /\ rows[k].cells[1] = String(k)

\* C14: a depart or arrive pair that is incomplete or does not parse never
\* rejects an add: with the required fields present the Trip is appended,
\* each leg keeps the date and time text as entered, and the leg's instant
\* is non-empty exactly when date and time were both given and denote a
\* valid moment (otherwise it is the empty sentinel).
ValidMoment(date, time) ==
    /\ Len(date) = 1 /\ date[1] \in {"2024-06-01", "2024-06-02"}
    /\ Len(time) = 1 /\ time[1] \in {"08:00", "10:30"}
LegKeeps(leg, date, time) ==
    /\ Get(leg, "date") = JStr(date)
    /\ Get(leg, "time") = JStr(time)
    /\ Get(leg, "isoUtc").type = "string"
    /\ (Get(leg, "isoUtc").chars # <<>>) <=> ValidMoment(date, time)

C14_BadDateStillAdds ==
    [][(out'.op = "add" /\ ~AnyRequiredBlank(inputs)) =>
          /\ Len(trips') = Len(trips) + 1
          /\ out'.notice = <<>>
          /\ LegKeeps(Get(trips'[Len(trips')], "depart"),
                      inputs.departDate, inputs.departTime)
          /\ LegKeeps(Get(trips'[Len(trips')], "arrive"),
                      inputs.arriveDate, inputs.arriveTime)]_vars

C14_Witness ==
    /\ out.op = "add"
    /\ out.notice = <<>>
    /\ Len(trips) = 2
    /\ Get(Get(trips[1], "depart"), "isoUtc").chars # <<>>
    /\ Get(Get(trips[2], "depart"), "date") = JStr(<<"2024-06-02">>)
    /\ Get(Get(trips[2], "depart"), "time") = JStr(<<>>)
    /\ Get(Get(trips[2], "depart"), "isoUtc") = JStr(<<>>)
    /\ Get(Get(trips[2], "arrive"), "date") = JStr(<<"soon">>)
    /\ Get(Get(trips[2], "arrive"), "isoUtc") = JStr(<<>>)

\* C15: once the page has loaded, a step leaves the list as it is, or (add)
\* puts one Trip after the unchanged earlier Trips, or (delete) takes out the
\* Trip at one index and keeps the others, unchanged and in order.  No step
\* reorders, replaces or edits Trips already in the list.
RemoveAt(list, i) == SubSeq(list, 1, i - 1) \o SubSeq(list, i + 1, Len(list))

C15_OnlyAppendOrRemove ==
    [][(pc = "ready" /\ pc' = "ready") =>
          \/ trips' = trips
          \/ /\ out'.op = "add"
             /\ Len(trips') = Len(trips) + 1
             /\ SubSeq(trips', 1, Len(trips)) = trips
          \/ /\ out'.op = "delete"
             /\ \E i \in 1..Len(trips) : trips' = RemoveAt(trips, i)]_vars

C15_Witness ==
    /\ pc = "ready"
    /\ out.op = "delete"
    /\ out.write = "ok"
    /\ trips = <<collectTrip(FillB, 2000)>>
    /\ ls = Item(JSONStringify(JArr(trips)))

\* C16: mutation is all-or-nothing.  After an add the list is the list
\* before or the list before with the Trip collected from the form appended;
\* after a delete with an index in range it is the list before or that list
\* without the element at the index; at an invalid index, as at a validation
\* failure, it is the list before.  A failed storage write, a failed redraw
\* or a failed read of the form gives no third outcome.
C16_AllOrNothing ==
    [][/\ out'.op = "add" =>
             \/ trips' = trips
             \/ \E t \in Collected(inputs) : trips' = Append(trips, t)
       /\ out'.op = "delete" =>
             IF InRange(out'.target, Len(trips))
             THEN \/ trips' = trips
                  \/ trips' = RemoveAt(trips, DeleteIndex(out'.target) + 1)
             ELSE trips' = trips]_vars

\* C17: an export only reads.  Whether it aborts or produces a file, the
\* list, the stored item and the rendered rows are as before, and a produced
\* document parses to an object whose trips sequence is the list at that
\* moment, in the same order.
C17_ExportOnlyReads ==
    [][out'.op = "save" =>
          /\ trips' = trips
          /\ ls' = ls
          /\ rows' = rows
          /\ lastWrite' = lastWrite
          /\ out'.write = "none"
          /\ Len(out'.file) <= 1
          /\ (out'.file = <<>>) <=> (trips = <<>>)
          /\ \A f \in 1..Len(out'.file) :
                /\ JSONParse(out'.file[f].text).ok
                /\ JSONParse(out'.file[f].text).value =
                      JObj(<<Prop("trips", JArr(trips))>>)]_vars

C17_Witness ==
    /\ out.op = "save"
    /\ Len(out.file) = 1
    /\ out.file[1].saved
    /\ Len(trips) = 2
    /\ trips[1] # trips[2]
    /\ Get(JSONParse(out.file[1].text).value, "trips") = JArr(trips)
    /\ Len(rows) = 2

\* C18: two add triggers with nothing typed between them append at most one
\* Trip: the add that follows a successful add finds the required inputs
\* cleared, shows the blank-field notice and leaves the list as it is.
C18_SecondAddRejected ==
    [][(out.op = "add" /\ out.notice = <<>> /\ out'.op = "add") =>
          /\ trips' = trips
          /\ out'.notice = RequiredNotice
          /\ ls' = ls
          /\ rows' = rows]_vars

C18_Witness ==
    /\ out.op = "add"
    /\ out.notice = RequiredNotice
    /\ inputs = clearInputs
    /\ focused = "train"
    /\ Len(trips) = 1
    /\ Len(rows) = 1

====
